---- MODULE Spec2Model ----
(***************************************************************************)
(* Model of bin/python/heatmap_from_count_table.py (virID).                *)
(*                                                                         *)
(* A data frame is a record [columns, rows]: columns is the list of column *)
(* names in order, rows the list of rows in order; a row carries its index *)
(* label (taxon) and one cell per column.  Cells are tagged records so     *)
(* that text cells, numbers, the mean (a ratio) and -inf can sit in the    *)
(* same frame.  Abundances are powers of ten or zero, on which log10 is    *)
(* exact.                                                                  *)
(***************************************************************************)
EXTENDS Integers, Sequences, FiniteSets, TLC

VARIABLES pc, input_format, infile, args, df, non_sample_cols, heatmaps, saved, last

vars == <<pc, input_format, infile, args, df, non_sample_cols, heatmaps, saved, last>>

(***************************************************************************)
(* Bounds of the model.                                                    *)
(***************************************************************************)
MaxRows == 2
MaxN == 2

\* ------------------------------------------------------------------ cells
Str(s) == [k |-> "str", s |-> s, n |-> 0, d |-> 1]
Num(n) == [k |-> "num", s |-> "", n |-> n, d |-> 1]
Ratio(n, d) == [k |-> "num", s |-> "", n |-> n, d |-> d]
NINF == [k |-> "ninf", s |-> "", n |-> 0, d |-> 1]

\* elementwise `cell != 0`: text and -inf differ from 0, a number when its
\* numerator is not 0
NotZero(c) == IF c.k = "num" THEN c.n # 0 ELSE TRUE

\* a < b on numeric cells (ratios compared by cross multiplication)
Less(a, b) == a.n * b.d < b.n * a.d

\* ------------------------------------------------------- sequence helpers
Range(s) == {s[i] : i \in DOMAIN s}

RECURSIVE SelectIdx(_, _, _)
\* the elements of s at the positions satisfying keep, in order
SelectIdx(s, keep, i) ==
    IF i > Len(s) THEN <<>>
    ELSE (IF keep[i] THEN <<s[i]>> ELSE <<>>) \o SelectIdx(s, keep, i + 1)

FilterSeq(s, Test(_)) == SelectIdx(s, [i \in DOMAIN s |-> Test(s[i])], 1)

Min(a, b) == IF a < b THEN a ELSE b
Max(a, b) == IF a > b THEN a ELSE b

Perms(n) ==
    {p \in [1..n -> 1..n] : \A i, j \in 1..n : i # j => p[i] # p[j]}

\* ------------------------------------------------------------ universes
SampleNames == <<"s1", "s2">>
Ranks == {"genus", "species"}
Labels == {"sk__Viruses", "Viruses", "sk__Bacteria", "Bacteria", "Eukaryota"}
Abundances == {0, 1, 10}
Domains == {"Virus", "Bacteria", "all", "Fungi"}

\* a row of the table as loaded: index label, domain, rank, one abundance
\* per sample
MkRow(taxon, skcol, lvcol, sk, lv, ab) ==
    [taxon |-> taxon,
     cell |-> [c \in {skcol, lvcol} \cup Range(SampleNames) |->
                 IF c = skcol THEN Str(sk)
                 ELSE IF c = lvcol THEN Str(lv)
                 ELSE Num(ab[CHOOSE i \in DOMAIN SampleNames : SampleNames[i] = c])]]

\* the content of an input file: per row a domain label, a rank label and
\* the abundances.  Either the labels vary and the abundances are fixed,
\* or the abundances vary and most rows are viral genera.
LabelRows == {<<sk, lv, <<10, 0>>>> : sk \in Labels, lv \in Ranks}
ValueRows ==
    {<<"sk__Viruses", "genus", <<a, b>>>> : a \in Abundances, b \in Abundances}
    \cup {<<"Bacteria", "genus", <<10, 0>>>>, <<"Bacteria", "genus", <<0, 10>>>>}
FilesOver(R) == UNION {[1..n -> R] : n \in 0..MaxRows}
Files == FilesOver(LabelRows) \cup FilesOver(ValueRows)

\* pd.read_csv(...).set_index(index_col): the frame of a file whose domain
\* and rank columns are named skcol and lvcol
ReadCsv(file, skcol, lvcol) ==
    [columns |-> <<skcol, lvcol>> \o SampleNames,
     rows |-> [i \in DOMAIN file |->
                 MkRow(i, skcol, lvcol, file[i][1], file[i][2], file[i][3])]]

NoFrame == [columns |-> <<>>, rows |-> <<>>]

\* --------------------------------------------------------- frame helpers
HasColumn(f, c) == c \in Range(f.columns)

\* df[cols]: the frame restricted to the listed columns, in that order
GetColumns(f, cols) ==
    [columns |-> cols,
     rows |-> [i \in DOMAIN f.rows |->
                 [taxon |-> f.rows[i].taxon,
                  cell |-> [c \in Range(cols) |-> f.rows[i].cell[c]]]]]

\* series.isin(values) for one cell
IsIn(c, values) == \E i \in DOMAIN values : c = Str(values[i])

\* ------------------------------------------------------ generate_heatmap
\* variant: the second viral synonym is not accepted
VirusLabelsShort == <<"sk__Viruses">>
VirusLabels == <<"sk__Viruses", "Viruses">>
BacteriaLabels == <<"sk__Bacteria", "Bacteria">>

\* variant: any other domain filter is treated as "all"
RowMaskAnyDomain(f, level, superkingdom) ==
    LET byLevel == [i \in DOMAIN f.rows |-> IsIn(f.rows[i].cell["level"], <<level>>)]
        both(values) ==
            [raise |-> "none",
             mask |-> [i \in DOMAIN f.rows |->
                         IsIn(f.rows[i].cell["superkingdom"], values) /\ byLevel[i]]]
    IN  IF superkingdom = "Virus" THEN both(VirusLabels)
        ELSE IF superkingdom = "Bacteria" THEN both(BacteriaLabels)
        ELSE [raise |-> "none", mask |-> byLevel]

\* lines 34-42: the boolean row mask, or the exception raised while it is
\* computed (df.superkingdom and df.level are attribute lookups of columns)
RowMask(f, level, superkingdom) ==
    LET byLevel == [i \in DOMAIN f.rows |-> IsIn(f.rows[i].cell["level"], <<level>>)]
        bySk(values) == [i \in DOMAIN f.rows |->
                           IsIn(f.rows[i].cell["superkingdom"], values)]
        both(values) ==
            IF ~HasColumn(f, "superkingdom") \/ ~HasColumn(f, "level")
            THEN [raise |-> "AttributeError", mask |-> <<>>]
            ELSE [raise |-> "none",
                  mask |-> [i \in DOMAIN f.rows |-> bySk(values)[i] /\ byLevel[i]]]
    IN  IF superkingdom = "Virus" THEN both(VirusLabels)
        ELSE IF superkingdom = "Bacteria" THEN both(BacteriaLabels)
        ELSE IF superkingdom = "all"
        THEN IF ~HasColumn(f, "level")
             THEN [raise |-> "AttributeError", mask |-> <<>>]
             ELSE [raise |-> "none", mask |-> byLevel]
        ELSE [raise |-> "ValueError", mask |-> <<>>]

\* variant: the selection filters the frame in place and df keeps naming it
GetitemInPlace(mem, ref, mask) ==
    [mem |-> [mem EXCEPT ![ref] = [columns |-> mem[ref].columns,
                                   rows |-> SelectIdx(mem[ref].rows, mask, 1)]],
     ref |-> ref]

\* Memory of one call: "src" is the caller's frame, "tmp" the frame the
\* local name df is bound to once an expression has built a new object.
\* line 44, df = df[rows]: boolean indexing builds a new frame
Getitem(mem, ref, mask) ==
    [mem |-> [mem EXCEPT !.tmp = [columns |-> mem[ref].columns,
                                  rows |-> SelectIdx(mem[ref].rows, mask, 1)]],
     ref |-> "tmp"]

\* line 47: the columns not listed in non_sample_cols, in column order
SampleCols(f, nsc) == FilterSeq(f.columns, LAMBDA c : c \notin Range(nsc))

RECURSIVE SumCells(_, _, _)
SumCells(row, cols, i) ==
    IF i > Len(cols) THEN 0 ELSE row.cell[cols[i]].n + SumCells(row, cols, i + 1)

\* df[sample_cols].mean(axis=1) for one row
Mean(row, cols) == Ratio(SumCells(row, cols, 1), Len(cols))

\* line 50, df['agg_mean'] = ...: writes a column into the frame df names
SetAggMean(mem, ref, cols) ==
    [mem EXCEPT ![ref] =
        [columns |-> IF HasColumn(@, "agg_mean") THEN @.columns
                     ELSE Append(@.columns, "agg_mean"),
         rows |-> [i \in DOMAIN @.rows |->
                    [taxon |-> @.rows[i].taxon,
                     cell |-> [c \in DOMAIN @.rows[i].cell \cup {"agg_mean"} |->
                                 IF c = "agg_mean" THEN Mean(@.rows[i], cols)
                                 ELSE @.rows[i].cell[c]]]]]]

\* variant: the sort is ascending whatever is asked
InOrderAscending(a, b, ascending) == ~Less(b, a)

\* the order sort_values asks of two adjacent rows, ascending or not
InOrder(a, b, ascending) == IF ascending THEN ~Less(b, a) ELSE ~Less(a, b)

\* line 51, df.sort_values(by, ascending=False): the sort kind is the
\* default "quicksort", which is not stable, so every arrangement of the
\* rows that is ordered by the key is a possible result
SortValues(f, by, ascending) ==
    {[columns |-> f.columns, rows |-> [i \in DOMAIN f.rows |-> f.rows[p[i]]]] :
        p \in {q \in Perms(Len(f.rows)) :
                 \A i \in 1..(Len(f.rows) - 1) :
                    InOrder(f.rows[q[i]].cell[by], f.rows[q[i + 1]].cell[by], ascending)}}

\* variant: one row more than asked
HeadRowsOneMore(f, n) ==
    [columns |-> f.columns, rows |-> SubSeq(f.rows, 1, Min(n + 1, Len(f.rows)))]

\* line 51, .head(n): the first n rows; all but the last -n when n < 0
HeadRows(f, n) ==
    [columns |-> f.columns,
     rows |-> SubSeq(f.rows, 1, IF n >= 0 THEN Min(n, Len(f.rows))
                                ELSE Max(Len(f.rows) + n, 0))]

\* line 52, df.drop(labels, axis=1)
Drop(f, labels) ==
    GetColumns(f, FilterSeq(f.columns, LAMBDA c : c \notin labels))

RECURSIVE ILog10(_)
\* log10 of a positive power of ten
ILog10(n) == IF n < 10 THEN 0 ELSE 1 + ILog10(n \div 10)

\* np.log10 of a non-negative number: -inf at 0
Log10(c) == IF c.n = 0 THEN NINF ELSE Num(ILog10(c.n))

\* variant: nothing is replaced
ReplaceNone(c, old, new) == c

\* .replace(old, new) for one cell
Replace(c, old, new) == IF c = old THEN new ELSE c

\* line 56, df[sample_cols] = df[sample_cols].apply(np.log10).replace(np.NINF, 0)
SetLog(mem, ref, cols) ==
    [mem EXCEPT ![ref] =
        [columns |-> @.columns,
         rows |-> [i \in DOMAIN @.rows |->
                    [taxon |-> @.rows[i].taxon,
                     cell |-> [c \in DOMAIN @.rows[i].cell |->
                                 IF c \in Range(cols)
                                 THEN Replace(Log10(@.rows[i].cell[c]), NINF, Num(0))
                                 ELSE @.rows[i].cell[c]]]]]]

\* variant: no column is removed
PruneNothing(f) == f

\* line 59, df.loc[:, (df != 0).any(axis=0)]: the columns with a cell that
\* differs from 0 (none when there is no row)
PruneColumns(f) ==
    GetColumns(f, FilterSeq(f.columns,
                   LAMBDA c : \E i \in DOMAIN f.rows : NotZero(f.rows[i].cell[c])))

\* line 62
RemainingSampleCols(cols, f) == FilterSeq(cols, LAMBDA c : HasColumn(f, c))

RECURSIVE Unique(_)
\* series.unique(): the distinct values in order of first appearance
Unique(s) ==
    IF s = <<>> THEN <<>>
    ELSE LET front == Unique(SubSeq(s, 1, Len(s) - 1))
         IN  IF s[Len(s)] \in Range(front) THEN front ELSE Append(front, s[Len(s)])

\* lines 81-84: colour i of a palette of n colours for the i-th distinct
\* domain label, looked up per row
NetworkColors(f) ==
    LET networks == [i \in DOMAIN f.rows |-> f.rows[i].cell["superkingdom"].s]
        uniq == Unique(networks)
        lut(label) == <<CHOOSE i \in DOMAIN uniq : uniq[i] = label, Len(uniq)>>
    IN  [i \in DOMAIN networks |-> [taxon |-> f.rows[i].taxon, color |-> lut(networks[i])]]

\* variant: a frame without sample columns counts as empty
RenderEmptyFrame(f, cols, cluster_samples, cluster_taxa) ==
    IF Len(f.rows) = 0 \/ Len(cols) = 0
    THEN [kind |-> "Empty", data |-> NoFrame, row_colors |-> <<>>, kwargs |-> {}]
    ELSE IF Len(f.rows) = 1
    THEN [kind |-> "heatmap", data |-> GetColumns(f, cols),
          row_colors |-> <<>>, kwargs |-> {}]
    ELSE [kind |-> "clustermap", data |-> GetColumns(f, cols),
          row_colors |-> NetworkColors(f),
          kwargs |-> {<<"col_cluster", cluster_samples>>,
                      <<"row_cluster", cluster_taxa>>}]

\* variant: the two cluster flags are exchanged
RenderSwappedFlags(f, cols, cluster_samples, cluster_taxa) ==
    IF Len(f.rows) = 0
    THEN [kind |-> "Empty", data |-> NoFrame, row_colors |-> <<>>, kwargs |-> {}]
    ELSE IF Len(f.rows) = 1
    THEN [kind |-> "heatmap", data |-> GetColumns(f, cols),
          row_colors |-> <<>>, kwargs |-> {}]
    ELSE [kind |-> "clustermap", data |-> GetColumns(f, cols),
          row_colors |-> NetworkColors(f),
          kwargs |-> {<<"col_cluster", cluster_taxa>>,
                      <<"row_cluster", cluster_samples>>}]

\* lines 64-99: what the call returns and what it hands to seaborn
Render(f, cols, cluster_samples, cluster_taxa) ==
    IF Len(f.rows) = 0
    THEN [kind |-> "Empty", data |-> NoFrame, row_colors |-> <<>>, kwargs |-> {}]
    ELSE IF Len(f.rows) = 1
    THEN [kind |-> "heatmap", data |-> GetColumns(f, cols),
          row_colors |-> <<>>, kwargs |-> {}]
    ELSE [kind |-> "clustermap", data |-> GetColumns(f, cols),
          row_colors |-> NetworkColors(f),
          kwargs |-> {<<"col_cluster", cluster_samples>>,
                      <<"row_cluster", cluster_taxa>>}]

NoResult == [kind |-> "none", data |-> NoFrame, row_colors |-> <<>>, kwargs |-> {}]

\* the record of one call: its arguments, the caller's frame before and
\* after, the frame df names after lines 44, 51 (sorted), 52, 56 and 59,
\* the exception raised and the value returned
CallRecord(crit, before, src, raise, filtered, sorted, top, logged, pruned, cols, result) ==
    [level |-> crit.level, N |-> crit.N, superkingdom |-> crit.superkingdom,
     cluster_samples |-> crit.cluster_samples, cluster_taxa |-> crit.cluster_taxa,
     before |-> before, src |-> src, raise |-> raise, filtered |-> filtered,
     sorted |-> sorted, top |-> top, logged |-> logged, pruned |-> pruned,
     sample_cols |-> cols, result |-> result]

\* lines 25-99: every way a call generate_heatmap(f, ...) can run
generate_heatmap(f, crit, nsc) ==
    LET m0 == [src |-> f, tmp |-> NoFrame]
        rm == RowMask(f, crit.level, crit.superkingdom)
    IN  IF rm.raise # "none"
        THEN {CallRecord(crit, f, f, rm.raise, NoFrame, NoFrame, NoFrame, NoFrame,
                         NoFrame, <<>>, NoResult)}
        ELSE LET g == Getitem(m0, "src", rm.mask)
                 filtered == g.mem[g.ref]
                 cols == SampleCols(filtered, nsc)
                 m1 == SetAggMean(g.mem, g.ref, cols)
             IN  {LET top == Drop(HeadRows(sorted, crit.N), {"agg_mean"})
                      m2 == SetLog([m1 EXCEPT !.tmp = top], "tmp", cols)
                      pruned == PruneColumns(m2.tmp)
                      cols2 == RemainingSampleCols(cols, pruned)
                  IN  CallRecord(crit, f, m2.src, "none", filtered, sorted, top, m2.tmp,
                                 pruned, cols2,
                                 Render(pruned, cols2, crit.cluster_samples,
                                        crit.cluster_taxa))
                  : sorted \in SortValues(m1[g.ref], "agg_mean", FALSE)}

\* lines 101-109: the file written for a figure, none for ''
save_heatmap(heatmap, output_path) ==
    IF heatmap.kind = "Empty" THEN {}
    ELSE {[path |-> output_path,
           via |-> IF heatmap.kind = "clustermap" THEN "savefig"
                   ELSE "get_figure().savefig"]}
\* ------------------------------------------------------------------ main
\* characters of the format argument; str.lower() maps each letter
UpperCase == <<"A", "D", "E", "H", "I", "P", "Q", "R", "S", "T", "V">>
LowerCase == <<"a", "d", "e", "h", "i", "p", "q", "r", "s", "t", "v">>
LowerChar(c) ==
    IF \E i \in DOMAIN UpperCase : UpperCase[i] = c
    THEN LowerCase[CHOOSE i \in DOMAIN UpperCase : UpperCase[i] = c]
    ELSE c
Lower(str) == [i \in DOMAIN str |-> LowerChar(str[i])]

Pathseq == <<"p", "a", "t", "h", "s", "e", "q">>
Virid == <<"v", "i", "r", "i", "d">>
Formats ==
    {Pathseq, <<"P", "a", "t", "h", "S", "e", "q">>, <<"P", "A", "T", "H", "S", "E", "Q">>,
     <<"v", "i", "r", "I", "D">>, Virid, <<"V", "I", "R", "I", "D">>,
     <<"t", "s", "v">>}

\* lines 206-221: the column names of the two input formats
FormatDefaults(fmt) ==
    IF Lower(fmt) = Pathseq
    THEN [raise |-> "none",
          non_sample_cols |-> <<"tax_id", "taxonomy", "type", "name", "kingdom",
                                "reference_length">>,
          level |-> "type", superkingdom |-> "kingdom", taxon |-> "name"]
    ELSE IF Lower(fmt) = Virid
    THEN [raise |-> "none",
          non_sample_cols |-> <<"lineage", "superkingdom", "taxon", "level", "taxonID">>,
          level |-> "level", superkingdom |-> "superkingdom", taxon |-> "taxon"]
    ELSE [raise |-> "ValueError", non_sample_cols |-> <<>>,
          level |-> "", superkingdom |-> "", taxon |-> ""]

\* list.remove(x): the list without the first occurrence of x
ListRemove(list, x) ==
    LET at == CHOOSE i \in DOMAIN list : list[i] = x /\ \A j \in 1..(i - 1) : list[j] # x
    IN  SubSeq(list, 1, at - 1) \o SubSeq(list, at + 1, Len(list))

\* line 235: the test that decides whether the columns are renamed
IsPathseqFormat(fmt) == fmt = Pathseq

\* line 236, df.rename(mapping, axis='columns'); mapping is a set of
\* <<old, new>> pairs
NewName(mapping, c) ==
    IF \E m \in mapping : m[1] = c THEN (CHOOSE m \in mapping : m[1] = c)[2] ELSE c
Rename(f, mapping) ==
    [columns |-> [i \in DOMAIN f.columns |-> NewName(mapping, f.columns[i])],
     rows |-> [i \in DOMAIN f.rows |->
                 [taxon |-> f.rows[i].taxon,
                  cell |-> [c \in {NewName(mapping, o) : o \in DOMAIN f.rows[i].cell} |->
                              f.rows[i].cell[CHOOSE o \in DOMAIN f.rows[i].cell :
                                                NewName(mapping, o) = c]]]]]

\* lines 237-238: the same replacement in a list of names
RenameItems(list, mapping) == [i \in DOMAIN list |-> NewName(mapping, list[i])]

ColumnRenames == {<<"kingdom", "superkingdom">>, <<"type", "level">>}

\* lines 242-299: the level and superkingdom of the seven calls, and the
\* lines 307-313: suffix of the file each result is saved to
MainCalls ==
    <<[level |-> "genus", superkingdom |-> "Virus", path |-> "_viral_genera"],
      [level |-> "species", superkingdom |-> "Virus", path |-> "_viral_species"],
      [level |-> "family", superkingdom |-> "Virus", path |-> "_viral_family"],
      [level |-> "genus", superkingdom |-> "Bacteria", path |-> "_bacterial_genera"],
      [level |-> "species", superkingdom |-> "Bacteria", path |-> "_bacterial_species"],
      [level |-> "genus", superkingdom |-> "all", path |-> "_all_genera"],
      [level |-> "species", superkingdom |-> "all", path |-> "_all_species"]>>

Criteria(level, superkingdom, a) ==
    [level |-> level, N |-> a.N, superkingdom |-> superkingdom,
     cluster_samples |-> a.cluster_samples, cluster_taxa |-> a.cluster_taxa]

NoCall ==
    CallRecord([level |-> "", N |-> 0, superkingdom |-> "", cluster_samples |-> TRUE,
                cluster_taxa |-> TRUE],
               NoFrame, NoFrame, "none", NoFrame, NoFrame, NoFrame, NoFrame, NoFrame,
               <<>>, NoResult)

Args == [N : 0..MaxN, cluster_samples : BOOLEAN, cluster_taxa : BOOLEAN]

\* lines 191-238: the arguments are parsed, the table is read and, for a
\* PathSeq table, its columns are renamed
MainSetup ==
    /\ pc = "setup"
    /\ LET fd == FormatDefaults(input_format)
       IN  IF fd.raise # "none"
           THEN /\ pc' = "raised"
                /\ UNCHANGED <<df, non_sample_cols>>
           ELSE LET nsc == ListRemove(fd.non_sample_cols, fd.taxon)
                    read == ReadCsv(infile, fd.superkingdom, fd.level)
                IN  /\ pc' = "calls"
                    /\ IF IsPathseqFormat(input_format)
                       THEN /\ df' = Rename(read, ColumnRenames)
                            /\ non_sample_cols' = RenameItems(nsc, ColumnRenames)
                       ELSE /\ df' = read
                            /\ non_sample_cols' = nsc
    /\ UNCHANGED <<input_format, infile, args, heatmaps, saved, last>>

\* lines 242-299: the next of the seven calls of generate_heatmap
MainCall ==
    /\ pc = "calls"
    /\ LET c == MainCalls[Len(heatmaps) + 1]
       IN  \E r \in generate_heatmap(df, Criteria(c.level, c.superkingdom, args),
                                     non_sample_cols) :
              /\ df' = r.src
              /\ last' = r
              /\ IF r.raise # "none"
                 THEN pc' = "raised" /\ UNCHANGED heatmaps
                 ELSE /\ heatmaps' = Append(heatmaps, r.result)
                      /\ pc' = IF Len(heatmaps) + 1 = Len(MainCalls) THEN "save" ELSE "calls"
    /\ UNCHANGED <<input_format, infile, args, non_sample_cols, saved>>

\* lines 301-315: every figure is written to its file
MainSave ==
    /\ pc = "save"
    /\ saved' = UNION {save_heatmap(heatmaps[i], MainCalls[i].path) : i \in DOMAIN heatmaps}
    /\ pc' = "done"
    /\ UNCHANGED <<input_format, infile, args, df, non_sample_cols, heatmaps, last>>

MainRows ==
    {<<"sk__Viruses", "genus", <<10, 0>>>>, <<"Viruses", "genus", <<0, 1>>>>,
     <<"Bacteria", "species", <<0, 10>>>>, <<"sk__Bacteria", "family", <<1, 0>>>>}

InitMain ==
    /\ pc = "setup"
    /\ input_format \in Formats
    /\ infile \in FilesOver(MainRows)
    /\ args \in Args
    /\ df = NoFrame
    /\ non_sample_cols = <<>>
    /\ heatmaps = <<>>
    /\ saved = {}
    /\ last = NoCall

NextMain == MainSetup \/ MainCall \/ MainSave

SpecMain == InitMain /\ [][NextMain]_vars

\* ------------------------------------- generate_heatmap and save_heatmap
\* called once on a table with the canonical column names, with any level
\* and superkingdom; an exception ends the run
Levels == {"genus", "species"}

Reduce ==
    /\ pc = "generate"
    /\ \E level \in Levels, superkingdom \in Domains :
          \E r \in generate_heatmap(df, Criteria(level, superkingdom, args),
                                    non_sample_cols) :
             /\ df' = r.src
             /\ last' = r
             /\ IF r.raise # "none"
                THEN pc' = "raised" /\ UNCHANGED heatmaps
                ELSE pc' = "save" /\ heatmaps' = <<r.result>>
    /\ UNCHANGED <<input_format, infile, args, non_sample_cols, saved>>

Save ==
    /\ pc = "save"
    /\ saved' = save_heatmap(heatmaps[1], "_out")
    /\ pc' = "done"
    /\ UNCHANGED <<input_format, infile, args, df, non_sample_cols, heatmaps, last>>

Init ==
    /\ pc = "generate"
    /\ input_format = Virid
    /\ infile \in Files
    /\ args \in Args
    /\ df = ReadCsv(infile, "superkingdom", "level")
    /\ non_sample_cols = ListRemove(FormatDefaults(Virid).non_sample_cols, "taxon")
    /\ heatmaps = <<>>
    /\ saved = {}
    /\ last = NoCall

Next == Reduce \/ Save

Spec == Init /\ [][Next]_vars
\* ================================================================ claims
\* helpers of the properties: they read the record of the last call
Returned == last # NoCall /\ last.raise = "none"
ValidDomain == last.superkingdom \in {"Virus", "Bacteria", "all"}

LabelOf(row, column) == row.cell[column].s

\* the row has the requested rank and a domain label the filter accepts
Matching(row) ==
    /\ LabelOf(row, "level") = last.level
    /\ last.superkingdom = "Virus" =>
          LabelOf(row, "superkingdom") \in {"sk__Viruses", "Viruses"}
    /\ last.superkingdom = "Bacteria" =>
          LabelOf(row, "superkingdom") \in {"sk__Bacteria", "Bacteria"}

MatchingRows == {r \in Range(last.before.rows) : Matching(r)}
Taxa(f) == [i \in DOMAIN f.rows |-> f.rows[i].taxon]
InputRow(taxon) == CHOOSE r \in Range(last.before.rows) : r.taxon = taxon
Samples == Range(SampleNames)

RECURSIVE TotalUpTo(_, _)
TotalUpTo(taxon, i) ==
    IF i = 0 THEN 0
    ELSE InputRow(taxon).cell[SampleNames[i]].n + TotalUpTo(taxon, i - 1)

\* the sum of a row's raw abundances; all rows have the same sample
\* columns, so the rows' means compare as their totals do
Total(taxon) == TotalUpTo(taxon, Len(SampleNames))

RECURSIVE Pow10(_)
Pow10(e) == IF e = 0 THEN 1 ELSE 10 * Pow10(e - 1)

\* C1: with a valid domain filter the rows that pass row filtering are
\* exactly the rows of the table whose rank label equals the requested rank
\* and whose domain label matches the filter, in table order, and every row
\* of the returned matrix is one of them.
C1_FilterExact ==
    (Returned /\ ValidDomain) =>
        /\ Range(last.filtered.rows) = MatchingRows
        /\ Len(last.filtered.rows) = Cardinality(MatchingRows)
        /\ \A i, j \in DOMAIN last.filtered.rows :
              i < j => last.filtered.rows[i].taxon < last.filtered.rows[j].taxon
        /\ \A t \in Range(Taxa(last.result.data)) : Matching(InputRow(t))

C1_Witness ==
    /\ Returned
    /\ last.superkingdom = "Virus"
    /\ Len(last.before.rows) = 2
    /\ Len(last.filtered.rows) = 1
    /\ LabelOf(last.filtered.rows[1], "superkingdom") = "Viruses"
    /\ \E r \in Range(last.before.rows) :
          LabelOf(r, "superkingdom") = "sk__Viruses" /\ LabelOf(r, "level") # last.level

\* C2: with a valid domain filter and N >= 0, top-N selection retains
\* exactly min(N, m) of the m matching rows, in non-increasing order of
\* their mean over the raw sample values, no dropped matching row has a
\* strictly larger mean than a retained one, and the returned matrix has
\* these rows in this order.
C2_TopN ==
    (Returned /\ ValidDomain /\ last.N >= 0) =>
        LET kept == Taxa(last.top)
        IN  /\ Len(kept) = Min(last.N, Cardinality(MatchingRows))
            /\ \A i, j \in DOMAIN kept : i # j => kept[i] # kept[j]
            /\ \A i \in DOMAIN kept : Matching(InputRow(kept[i]))
            /\ \A i \in 1..(Len(kept) - 1) : Total(kept[i]) >= Total(kept[i + 1])
            /\ \A r \in MatchingRows :
                  r.taxon \notin Range(kept) =>
                     \A t \in Range(kept) : Total(r.taxon) <= Total(t)
            /\ last.result.kind # "Empty" => Taxa(last.result.data) = kept

C2_Witness ==
    /\ Returned
    /\ last.N = 1
    /\ Cardinality(MatchingRows) = 2
    /\ Taxa(last.top) = <<2>>
    /\ Total(2) > Total(1)

\* C3: every cell of a sample column of a retained row holds log10 of its
\* non-negative input when the input is positive and exactly 0 when the
\* input is 0, in the log-scaled frame and in the matrix handed to the
\* renderer; the transform drops no row.
C3_LogCell(cell, input) ==
    /\ cell.k = "num"
    /\ cell.d = 1
    /\ input > 0 => (cell.n >= 0 /\ Pow10(cell.n) = input)
    /\ input = 0 => cell.n = 0

C4_Pruned ==
    Returned =>
        /\ Range(last.sample_cols) =
              {c \in Samples : \E i \in DOMAIN last.logged.rows :
                                  last.logged.rows[i].cell[c].n # 0}
        /\ last.sample_cols = FilterSeq(SampleNames, LAMBDA c : c \in Range(last.sample_cols))
        /\ last.result.kind # "Empty" => last.result.data.columns = last.sample_cols
        /\ \A c \in Range(last.result.data.columns) :
              \E i \in DOMAIN last.result.data.rows : last.result.data.rows[i].cell[c].n # 0

C4_Witness ==
    /\ Returned
    /\ last.result.kind = "heatmap"
    /\ Len(last.filtered.rows) = 2
    /\ \E c \in Samples :
          /\ c \notin Range(last.result.data.columns)
          /\ \E r \in Range(last.filtered.rows) : r.cell[c].n = 10

\* C5: a domain filter other than "Virus", "Bacteria" and "all" makes the
\* call raise ValueError before any filtering, for every table and N: no
\* frame is derived, nothing is returned and nothing is saved.
C5_InvalidDomain ==
    (last # NoCall /\ ~ValidDomain) =>
        /\ last.raise = "ValueError"
        /\ last.result = NoResult
        /\ last.filtered = NoFrame
        /\ last.pruned = NoFrame
        /\ pc = "raised"
        /\ heatmaps = <<>>
        /\ saved = {}

C5_Witness ==
    /\ last # NoCall
    /\ last.superkingdom = "Fungi"
    /\ last.raise = "ValueError"
    /\ \E r \in Range(last.before.rows) : LabelOf(r, "level") = last.level

\* C6: with a valid domain filter the call raises nothing and returns the
\* Empty result exactly when no row remains after filtering, top-N, log
\* and pruning, that is when min(N, m) = 0; a result with a retained row is
\* not Empty even when all its values are 0, and nothing is rendered or
\* saved for an Empty result.
C6_EmptyResult ==
    (last # NoCall /\ ValidDomain) =>
        /\ last.raise = "none"
        /\ last.result.kind \in {"Empty", "heatmap", "clustermap"}
        /\ last.result.kind = "Empty" <=> Len(last.pruned.rows) = 0
        /\ Len(last.pruned.rows) = Min(last.N, Cardinality(MatchingRows))
        /\ last.result.kind = "Empty" =>
              (last.result.data = NoFrame /\ (pc = "done" => saved = {}))

C6_Witness ==
    /\ Returned
    /\ last.result.kind = "heatmap"
    /\ last.result.data.columns = <<>>
    /\ \E c \in Samples : InputRow(last.pruned.rows[1].taxon).cell[c].n = 1

\* C7: one retained row gives the plain heatmap, to which no cluster flag
\* is passed; two or more give the clustered heatmap, which receives
\* cluster_taxa as row_cluster and cluster_samples as col_cluster, and one
\* colour per retained row that is the same for two rows exactly when
\* their domain labels are the same.
C7_RenderMode ==
    Returned =>
        /\ last.result.kind = "heatmap" <=> Len(last.pruned.rows) = 1
        /\ last.result.kind = "clustermap" <=> Len(last.pruned.rows) >= 2
        /\ last.result.kind = "heatmap" =>
              (last.result.kwargs = {} /\ last.result.row_colors = <<>>)
        /\ last.result.kind = "clustermap" =>
              /\ \A kw \in last.result.kwargs :
                    /\ kw[1] = "row_cluster" => kw[2] = last.cluster_taxa
                    /\ kw[1] = "col_cluster" => kw[2] = last.cluster_samples
              /\ {kw[1] : kw \in last.result.kwargs} = {"row_cluster", "col_cluster"}
              /\ LET colors == last.result.row_colors
                 IN  /\ [i \in DOMAIN colors |-> colors[i].taxon] = Taxa(last.pruned)
                     /\ \A i, j \in DOMAIN colors :
                           colors[i].color = colors[j].color <=>
                              LabelOf(InputRow(colors[i].taxon), "superkingdom")
                                 = LabelOf(InputRow(colors[j].taxon), "superkingdom")

C7_Witness ==
    /\ Returned
    /\ last.result.kind = "clustermap"
    /\ last.cluster_taxa
    /\ ~last.cluster_samples
    /\ last.result.row_colors[1].color # last.result.row_colors[2].color

\* C8: the caller's table is never changed by a call: it keeps the rows,
\* the columns and the raw values it was loaded with, whatever the call
\* returns or raises.
C8_SourceUnchanged ==
    /\ df = ReadCsv(infile, "superkingdom", "level")
    /\ last # NoCall => last.src = last.before

C8_Witness ==
    /\ Returned
    /\ Len(last.filtered.rows) < Len(df.rows)
    /\ last.result.kind = "heatmap"
    /\ Len(last.pruned.columns) < Len(df.columns)
    /\ \E c \in Range(last.result.data.columns) :
          last.result.data.rows[1].cell[c] # df.rows[last.result.data.rows[1].taxon].cell[c]

\* C9, as claimed: matching rows with equal means keep their input order
\* in the sorted frame, so of two tied rows at the N-th position the
\* earlier one is retained.
C9_StableTies ==
    Returned =>
        \A i, j \in DOMAIN last.sorted.rows :
           (i < j /\ Total(last.sorted.rows[i].taxon) = Total(last.sorted.rows[j].taxon))
              => last.sorted.rows[i].taxon < last.sorted.rows[j].taxon

\* C9, amended: rows with equal means may come out in either order; every
\* matching row with a mean above that of the last retained row is
\* retained, and the rows tied with it fill the remaining places, whichever
\* of them they are.
C9_TiesFillRemainingPlaces ==
    (Returned /\ ValidDomain /\ last.N >= 0 /\ Len(last.top.rows) > 0) =>
        LET kept == Range(Taxa(last.top))
            cut == Total(last.top.rows[Len(last.top.rows)].taxon)
            above == {r.taxon : r \in {m \in MatchingRows : Total(m.taxon) > cut}}
            tied == {r.taxon : r \in {m \in MatchingRows : Total(m.taxon) = cut}}
        IN  /\ above \subseteq kept
            /\ kept \subseteq above \cup tied
            /\ Cardinality(kept \cap tied) =
                  Min(last.N, Cardinality(MatchingRows)) - Cardinality(above)

C9_Witness ==
    /\ Returned
    /\ last.N = 1
    /\ Taxa(last.filtered) = <<1, 2>>
    /\ Total(1) = Total(2)
    /\ Taxa(last.top) = <<2>>

\* C10, as claimed: for every accepted format string, in any letter case,
\* the table and the list of annotation columns that reach
\* generate_heatmap use the names "superkingdom" and "level".
C10_CanonicalNames ==
    pc = "calls" =>
        /\ HasColumn(df, "superkingdom")
        /\ HasColumn(df, "level")
        /\ {"superkingdom", "level"} \subseteq Range(non_sample_cols)
        /\ {"kingdom", "type"} \cap (Range(non_sample_cols) \cup Range(df.columns)) = {}
====
